---- MODULE Spec2Model ----
(***************************************************************************)
(* Crack-the-Cipher (src/App.tsx): a bulls-and-cows game.  The model is    *)
(* the React component App: its useState cells are the variables, each     *)
(* event handler is one action (React flushes the state updates of a       *)
(* click before the next event is delivered, so a handler always reads     *)
(* the state its predecessor wrote), and the shake timer's callback is an  *)
(* action of its own.  A string is a sequence of one-character strings.    *)
(* darkMode takes no part in the game and is left out.                     *)
(***************************************************************************)
EXTENDS Integers, Sequences, FiniteSets, TLC

VARIABLES gameStatus, secretCode, currentInput, guesses, shakeInput,
          hintAvailable, shakeTimers

vars == <<gameStatus, secretCode, currentInput, guesses, shakeInput,
          hintAvailable, shakeTimers>>

\* ------------------------------------------------------------ constants

MAX_ATTEMPTS == 10

CODE_LENGTH == 4

GameModes == {"solo", "multiplayer"}

GameStatuses == {"menu", "setup", "handover", "playing", "won", "lost"}

\* The digits array generateSecretCode starts from, in its order.
digits0 == <<"0", "1", "2", "3", "4", "5", "6", "7", "8", "9">>

\* The keys of the keypad, in the order the Keypad lays them out.
keys == <<"1", "2", "3", "4", "5", "6", "7", "8", "9", "DEL", "0", "ENTER">>

DigitKeys == {keys[i] : i \in 1..Len(keys)} \ {"DEL", "ENTER"}

\* --------------------------------------------------------------- bounds

\* The codes the players of the model type: the first PoolSize of PoolSeq.
PoolSize == 3

\* The outcomes of Math.random the model draws: the first NumRand of RandSeqs.
NumRand == 2

PoolSeq ==
    << <<"1", "2", "3", "4">>, <<"1", "2", "4", "3">>, <<"5", "6", "7", "8">>,
       <<"4", "3", "2", "1">>, <<"0", "1", "2", "3">>, <<"9", "0", "1", "5">> >>

\* Each entry: the four values of Math.floor(Math.random() * digits.length)
\* of one call of generateSecretCode (the i-th is below 10 - (i - 1)).
RandSeqs ==
    << <<1, 1, 1, 1>>, <<0, 0, 0, 0>>, <<9, 8, 7, 6>>, <<4, 0, 7, 2>> >>

CodePool == {PoolSeq[i] : i \in 1..PoolSize}

RandomDraws == {RandSeqs[i] : i \in 1..NumRand}

\* ------------------------------------------------------ string helpers

\* s[i] of JavaScript for a 0-based i: undefined outside the string.
Undefined == "undefined"

CharAt(s, i) == IF i + 1 \in 1..Len(s) THEN s[i + 1] ELSE Undefined

\* s.includes(c) for a single character c (or undefined, which no digit
\* string contains).
Includes(s, c) == \E j \in 1..Len(s) : s[j] = c

\* s.slice(0, -1)
SliceDropLast(s) == SubSeq(s, 1, Len(s) - 1)

\* Variant: the digit drawn stays in the array (slice for splice).
Splice_NoRemoval(s, k) == s

\* digits.splice(k, 1) for a 0-based k: the array without its k-th element.
Splice(s, k) ==
    [i \in 1..(Len(s) - 1) |-> IF i <= k THEN s[i] ELSE s[i + 1]]

IsPrefix(p, c) == Len(p) <= Len(c) /\ \A i \in 1..Len(p) : p[i] = c[i]

\* ------------------------------------------------------ pure functions

RECURSIVE GenLoop(_, _, _, _)
GenLoop(i, digits, code, random) ==
    IF i >= CODE_LENGTH THEN code
    ELSE LET randomIndex == random[i + 1]
         IN GenLoop(i + 1, Splice(digits, randomIndex),
                    code \o <<digits[randomIndex + 1]>>, random)

\* generateSecretCode, given the four random indices it draws.
generateSecretCode(random) == GenLoop(0, digits0, <<>>, random)

RECURSIVE FeedbackLoop(_, _, _, _, _)
FeedbackLoop(i, secret, guess, bulls, cows) ==
    IF i >= CODE_LENGTH THEN [bulls |-> bulls, cows |-> cows]
    ELSE IF CharAt(guess, i) = CharAt(secret, i)
         THEN FeedbackLoop(i + 1, secret, guess, bulls + 1, cows)
    ELSE IF Includes(secret, CharAt(guess, i))
         THEN FeedbackLoop(i + 1, secret, guess, bulls, cows + 1)
    ELSE FeedbackLoop(i + 1, secret, guess, bulls, cows)

\* Variant: a second if in place of the else if, so a bull is a cow too.
RECURSIVE FeedbackLoop_NoElse(_, _, _, _, _)
FeedbackLoop_NoElse(i, secret, guess, bulls, cows) ==
    IF i >= CODE_LENGTH THEN [bulls |-> bulls, cows |-> cows]
    ELSE FeedbackLoop_NoElse(
            i + 1, secret, guess,
            IF CharAt(guess, i) = CharAt(secret, i) THEN bulls + 1 ELSE bulls,
            IF Includes(secret, CharAt(guess, i)) THEN cows + 1 ELSE cows)

calculateFeedback_NoElse(secret, guess) ==
    FeedbackLoop_NoElse(0, secret, guess, 0, 0)

\* Variant: a plain else in place of the else if, so a miss is a cow too.
RECURSIVE FeedbackLoop_NoContainmentTest(_, _, _, _, _)
FeedbackLoop_NoContainmentTest(i, secret, guess, bulls, cows) ==
    IF i >= CODE_LENGTH THEN [bulls |-> bulls, cows |-> cows]
    ELSE IF CharAt(guess, i) = CharAt(secret, i)
         THEN FeedbackLoop_NoContainmentTest(i + 1, secret, guess, bulls + 1,
                                             cows)
    ELSE FeedbackLoop_NoContainmentTest(i + 1, secret, guess, bulls, cows + 1)

calculateFeedback_NoContainmentTest(secret, guess) ==
    FeedbackLoop_NoContainmentTest(0, secret, guess, 0, 0)

\* Variant: the loop starts at i = 1.
calculateFeedback_FromOne(secret, guess) == FeedbackLoop(1, secret, guess, 0, 0)

calculateFeedback(secret, guess) == FeedbackLoop(0, secret, guess, 0, 0)

\* ------------------------------------------------------------- the view

\* Variant: the keypad of the playing view is not taken away at game over.
KeypadRendered_AfterGameOver ==
    gameStatus = "setup" \/ gameStatus = "playing" \/ gameStatus = "won"
        \/ gameStatus = "lost"

\* The Keypad is rendered in the setup view and, in the playing view,
\* only while the game is neither won nor lost.
KeypadRendered == gameStatus = "setup" \/ gameStatus = "playing"

\* Variant: the hint button stays in the view at game over.
HintButtonRendered_AfterGameOver ==
    gameStatus = "playing" \/ gameStatus = "won" \/ gameStatus = "lost"

\* The hint button lives beside the keypad of the playing view.  Its own
\* conditions (guesses.length > 0, disabled = !hintAvailable) repeat the
\* guard of useHint, so they remove no-op calls only.
HintButtonRendered == gameStatus = "playing"

\* The two mode buttons of the menu view.
MenuRendered == gameStatus = "menu"

\* The "Start Guessing" button of the handover view.
HandoverRendered == gameStatus = "handover"

\* ---------------------------------------------------------- the players

\* Position of a code in PoolSeq (1 for a code that is not in the pool).
PoolIndex(code) ==
    IF \E i \in 1..PoolSize : PoolSeq[i] = code
    THEN CHOOSE i \in 1..PoolSize : PoolSeq[i] = code
    ELSE 1

\* The codes a player of the model goes on to type: any code of the pool
\* as the secret or as the first guess, afterwards the last guess again
\* or a later code of the pool.
NextCodes ==
    IF guesses = <<>> THEN CodePool
    ELSE {PoolSeq[i] : i \in PoolIndex(guesses[Len(guesses)].code)..PoolSize}

\* The keys the players of the model press: ENTER and DEL at any time; a
\* digit when the press is ignored or rejected (shake in progress, input
\* full, digit already present) or when it continues one of NextCodes.
OfferedKeys ==
    {"ENTER", "DEL"} \cup
    {d \in DigitKeys :
        \/ shakeInput
        \/ Len(currentInput) >= CODE_LENGTH
        \/ Includes(currentInput, d)
        \/ \E c \in NextCodes : IsPrefix(currentInput \o <<d>>, c)}

\* ------------------------------------------------------------- handlers

Init ==
    /\ gameStatus = "menu"
    /\ secretCode = <<>>
    /\ currentInput = <<>>
    /\ guesses = <<>>
    /\ shakeInput = FALSE
    /\ hintAvailable = TRUE
    /\ shakeTimers = 0

\* Variant: the flag is raised and no timer is started.
triggerShake_NoTimer ==
    /\ shakeInput' = TRUE
    /\ shakeTimers' = shakeTimers

\* setShakeInput(true); setTimeout(() => setShakeInput(false), 400)
triggerShake ==
    /\ shakeInput' = TRUE
    /\ shakeTimers' = shakeTimers + 1

\* The callback of the timer triggerShake started.
ShakeTimeout ==
    /\ shakeTimers > 0
    /\ shakeTimers' = shakeTimers - 1
    /\ shakeInput' = FALSE
    /\ UNCHANGED <<gameStatus, secretCode, currentInput, guesses, hintAvailable>>

\* Variant: [newGuess, ...guesses]
AppendGuess_Prepend(old, newGuess) == <<newGuess>> \o old

\* [...guesses, newGuess]
AppendGuess(old, newGuess) == old \o <<newGuess>>

\* Variant: the attempt limit is tested before the win.
StatusAfterGuess_LimitFirst(status, bulls, newGuesses) ==
    IF Len(newGuesses) >= MAX_ATTEMPTS THEN "lost"
    ELSE IF bulls = CODE_LENGTH THEN "won"
    ELSE status

\* Variant: > in place of >= in the test of the attempt limit.
StatusAfterGuess_OffByOne(status, bulls, newGuesses) ==
    IF bulls = CODE_LENGTH THEN "won"
    ELSE IF Len(newGuesses) > MAX_ATTEMPTS THEN "lost"
    ELSE status

\* The status after a guess that scored bulls and made the history newGuesses.
StatusAfterGuess(status, bulls, newGuesses) ==
    IF bulls = CODE_LENGTH THEN "won"
    ELSE IF Len(newGuesses) >= MAX_ATTEMPTS THEN "lost"
    ELSE status

\* Variant: the input is not cleared.
SubmitSetup_KeepsInput ==
    /\ secretCode' = currentInput
    /\ gameStatus' = "handover"
    /\ UNCHANGED <<currentInput, guesses, shakeInput, hintAvailable,
                   shakeTimers>>

\* submitAction in setup: Player 1's input becomes the secret.
SubmitSetup ==
    /\ secretCode' = currentInput
    /\ currentInput' = <<>>
    /\ gameStatus' = "handover"
    /\ UNCHANGED <<guesses, shakeInput, hintAvailable, shakeTimers>>

\* submitAction otherwise: the input is scored and recorded as a guess.
SubmitGuess ==
    LET fb == calculateFeedback(secretCode, currentInput)
        newGuess == [code |-> currentInput, bulls |-> fb.bulls,
                     cows |-> fb.cows, isRevealed |-> FALSE]
        newGuesses == AppendGuess(guesses, newGuess)
    IN /\ guesses' = newGuesses
       /\ currentInput' = <<>>
       /\ gameStatus' = StatusAfterGuess(gameStatus, fb.bulls, newGuesses)
       /\ UNCHANGED <<secretCode, shakeInput, hintAvailable, shakeTimers>>

\* Variant: only an empty input is rejected.
submitAction_RejectsEmptyOnly ==
    IF Len(currentInput) = 0
    THEN /\ triggerShake
         /\ UNCHANGED <<gameStatus, secretCode, currentInput, guesses,
                        hintAvailable>>
    ELSE IF gameStatus = "setup" THEN SubmitSetup
    ELSE SubmitGuess

\* Variant: the branch of the setup view is taken in every view.
submitAction_NoSetupTest ==
    IF Len(currentInput) # CODE_LENGTH
    THEN /\ triggerShake
         /\ UNCHANGED <<gameStatus, secretCode, currentInput, guesses,
                        hintAvailable>>
    ELSE SubmitSetup

submitAction ==
    IF Len(currentInput) # CODE_LENGTH
    THEN /\ triggerShake
         /\ UNCHANGED <<gameStatus, secretCode, currentInput, guesses,
                        hintAvailable>>
    ELSE IF gameStatus = "setup" THEN SubmitSetup
    ELSE SubmitGuess

\* Variant: no test for a digit that is already part of the input.
PressDigit_NoDuplicateCheck(key) ==
    IF Len(currentInput) >= CODE_LENGTH THEN UNCHANGED vars
    ELSE /\ currentInput' = currentInput \o <<key>>
         /\ UNCHANGED <<gameStatus, secretCode, guesses, shakeInput,
                        hintAvailable, shakeTimers>>

\* Variant: the duplicate is tested for before the length.
PressDigit_DuplicateTestFirst(key) ==
    IF Includes(currentInput, key)
    THEN /\ triggerShake
         /\ UNCHANGED <<gameStatus, secretCode, currentInput, guesses,
                        hintAvailable>>
    ELSE IF Len(currentInput) >= CODE_LENGTH THEN UNCHANGED vars
    ELSE /\ currentInput' = currentInput \o <<key>>
         /\ UNCHANGED <<gameStatus, secretCode, guesses, shakeInput,
                        hintAvailable, shakeTimers>>

\* handleKeypadPress for a digit key.
PressDigit(key) ==
    IF Len(currentInput) >= CODE_LENGTH THEN UNCHANGED vars
    ELSE IF Includes(currentInput, key)
    THEN /\ triggerShake
         /\ UNCHANGED <<gameStatus, secretCode, currentInput, guesses,
                        hintAvailable>>
    ELSE /\ currentInput' = currentInput \o <<key>>
         /\ UNCHANGED <<gameStatus, secretCode, guesses, shakeInput,
                        hintAvailable, shakeTimers>>

\* Variant: prev.slice(1), which drops the first character.
PressDel_DropsFirst ==
    /\ currentInput' = SubSeq(currentInput, 2, Len(currentInput))
    /\ UNCHANGED <<gameStatus, secretCode, guesses, shakeInput, hintAvailable,
                   shakeTimers>>

\* handleKeypadPress for DEL.
PressDel ==
    /\ currentInput' = SliceDropLast(currentInput)
    /\ UNCHANGED <<gameStatus, secretCode, guesses, shakeInput, hintAvailable,
                   shakeTimers>>

\* Variant: no test of shakeInput.
handleKeypadPress_NoShakeTest(key) ==
    /\ KeypadRendered
    /\ IF key = "ENTER" THEN submitAction
       ELSE IF key = "DEL" THEN PressDel
       ELSE PressDigit(key)

handleKeypadPress(key) ==
    /\ KeypadRendered
    /\ IF shakeInput THEN UNCHANGED vars
       ELSE IF key = "ENTER" THEN submitAction
       ELSE IF key = "DEL" THEN PressDel
       ELSE PressDigit(key)

\* Variant: every guess is marked as revealed.
RevealLast_All(old) ==
    [i \in 1..Len(old) |-> [old[i] EXCEPT !.isRevealed = TRUE]]

\* The guesses after a hint: the last one marked as revealed.
RevealLast(old) ==
    [i \in 1..Len(old) |->
        IF i = Len(old) THEN [old[i] EXCEPT !.isRevealed = TRUE] ELSE old[i]]

\* Variant: no test of hintAvailable.
useHint_NoAvailabilityTest ==
    /\ HintButtonRendered
    /\ IF Len(guesses) = 0 THEN UNCHANGED vars
       ELSE /\ guesses' = RevealLast(guesses)
            /\ hintAvailable' = FALSE
            /\ UNCHANGED <<gameStatus, secretCode, currentInput, shakeInput,
                           shakeTimers>>

useHint ==
    /\ HintButtonRendered
    /\ IF ~hintAvailable \/ Len(guesses) = 0 THEN UNCHANGED vars
       ELSE /\ guesses' = RevealLast(guesses)
            /\ hintAvailable' = FALSE
            /\ UNCHANGED <<gameStatus, secretCode, currentInput, shakeInput,
                           shakeTimers>>

startGame(mode, random) ==
    /\ MenuRendered
    /\ guesses' = <<>>
    /\ currentInput' = <<>>
    /\ hintAvailable' = TRUE
    /\ IF mode = "solo"
       THEN /\ secretCode' = generateSecretCode(random)
            /\ gameStatus' = "playing"
       ELSE /\ secretCode' = <<>>
            /\ gameStatus' = "setup"
    /\ UNCHANGED <<shakeInput, shakeTimers>>

\* The handover view's button: setGameStatus('playing').
confirmHandover ==
    /\ HandoverRendered
    /\ gameStatus' = "playing"
    /\ UNCHANGED <<secretCode, currentInput, guesses, shakeInput,
                   hintAvailable, shakeTimers>>

\* Variant: the hint is not handed back.
resetGame_KeepsHint ==
    /\ gameStatus' = "menu"
    /\ guesses' = <<>>
    /\ currentInput' = <<>>
    /\ secretCode' = <<>>
    /\ UNCHANGED <<hintAvailable, shakeInput, shakeTimers>>

\* The header's home click and both restart buttons.
resetGame ==
    /\ gameStatus' = "menu"
    /\ guesses' = <<>>
    /\ currentInput' = <<>>
    /\ secretCode' = <<>>
    /\ hintAvailable' = TRUE
    /\ UNCHANGED <<shakeInput, shakeTimers>>

Next ==
    \/ \E mode \in GameModes, random \in RandomDraws : startGame(mode, random)
    \/ \E key \in OfferedKeys : handleKeypadPress(key)
    \/ confirmHandover
    \/ useHint
    \/ resetGame
    \/ ShakeTimeout

Spec == Init /\ [][Next]_vars

\* The game with its timers: a callback setTimeout has scheduled is run
\* by the event loop once its 400 ms have passed, so a pending
\* ShakeTimeout is not put off forever.
FairSpec == Init /\ [][Next]_vars /\ WF_vars(ShakeTimeout)

\* --------------------------------------------------------- type of state

IsCode(s) ==
    /\ Len(s) = CODE_LENGTH
    /\ \A i \in 1..Len(s) : s[i] \in DigitKeys
    /\ \A i, j \in 1..Len(s) : i # j => s[i] # s[j]

\* Every code: the sequences of CODE_LENGTH distinct digits.
AllCodes == {c \in [1..CODE_LENGTH -> DigitKeys] : IsCode(c)}

\* ------------------------------------------------- scoring, on its own

\* A game being played whose guesser has typed a full code: any code
\* against a secret typed by Player 1 (CodePool) or generated (RandomDraws).
ScoreSecrets == CodePool \cup {generateSecretCode(r) : r \in RandomDraws}

ScoreInit ==
    /\ gameStatus = "playing"
    /\ secretCode \in ScoreSecrets
    /\ currentInput \in AllCodes
    /\ guesses = <<>>
    /\ shakeInput = FALSE
    /\ hintAvailable = TRUE
    /\ shakeTimers = 0

\* The guess is submitted; nothing is typed afterwards.
ScoreNext ==
    \/ handleKeypadPress("ENTER")
    \/ ShakeTimeout

ScoreSpec == ScoreInit /\ [][ScoreNext]_vars

\* --------------------------------------------- generation, on its own

\* Every outcome of the four draws of one call of generateSecretCode: the
\* i-th is an index into the 10 - (i - 1) digits that are left.
AllRandomDraws ==
    {r \in [1..CODE_LENGTH -> 0..(Len(digits0) - 1)] :
        \A i \in 1..CODE_LENGTH : r[i] < Len(digits0) - (i - 1)}

\* Solo games are started, one after the other, with any outcome of the
\* draws; nothing is typed.
GenNext ==
    \/ \E random \in AllRandomDraws : startGame("solo", random)
    \/ resetGame

GenSpec == Init /\ [][GenNext]_vars

\* ------------------------------------------------ the revealed digits

\* Variant: a second if in place of the else if, so the colour of a cow
\* overwrites that of a bull.
DigitClass_SecondIf(digit, dIdx) ==
    IF Includes(secretCode, digit) THEN "cow"
    ELSE IF digit = CharAt(secretCode, dIdx) THEN "bull"
    ELSE "miss"

\* The colour the history gives the digit at the 0-based place dIdx of a
\* revealed guess: bull (exact), cow (wrong position) or miss.
DigitClass(digit, dIdx) ==
    IF digit = CharAt(secretCode, dIdx) THEN "bull"
    ELSE IF Includes(secretCode, digit) THEN "cow"
    ELSE "miss"

\* colorClass of the digit at dIdx of the guess g: the default colour
\* unless the guess is revealed.
colorClass(g, dIdx) ==
    IF g.isRevealed THEN DigitClass(CharAt(g.code, dIdx), dIdx) ELSE "default"

\* The number of digits of a code that are given the colour class.
ClassCount(code, class) ==
    Cardinality({dIdx \in 0..(Len(code) - 1) :
                    DigitClass(CharAt(code, dIdx), dIdx) = class})

\* The score by counting: the positions that agree, and the digits the
\* two codes share.
RefBulls(secret, guess) ==
    Cardinality({i \in 1..CODE_LENGTH : guess[i] = secret[i]})

RefCommon(secret, guess) ==
    Cardinality({guess[i] : i \in 1..CODE_LENGTH}
                    \cap {secret[i] : i \in 1..CODE_LENGTH})

\* The positions of the guesses that scored four bulls.
WinningGuesses == {i \in 1..Len(guesses) : guesses[i].bulls = CODE_LENGTH}

\* The positions of the guesses marked as revealed.
RevealedGuesses == {i \in 1..Len(guesses) : guesses[i].isRevealed}

GameOver == gameStatus = "won" \/ gameStatus = "lost"

\* A step of resetGame is the only step that ends in the menu.
NoReset == gameStatus' # "menu"

\* ---------------------------------------------------------------- claims

\* C1: the status is 'won' if and only if the history holds a guess with
\* four bulls, and such a guess is the last record of the history.
C1_WonIffLastGuessAllBulls ==
    /\ (gameStatus = "won") <=> (WinningGuesses # {})
    /\ \A i \in WinningGuesses : i = Len(guesses)

\* A game won with the tenth guess, after nine misses.
C1_Witness ==
    /\ gameStatus = "won"
    /\ Len(guesses) = MAX_ATTEMPTS
    /\ guesses[MAX_ATTEMPTS].bulls = CODE_LENGTH

\* C2: the status is 'lost' if and only if the history holds exactly
\* MAX_ATTEMPTS guesses and none of them scored four bulls.
C2_LostIffTenMisses ==
    (gameStatus = "lost") <=>
        (Len(guesses) = MAX_ATTEMPTS /\ WinningGuesses = {})

\* A game lost with the tenth miss.
C2_Witness ==
    /\ gameStatus = "lost"
    /\ Len(guesses) = MAX_ATTEMPTS
    /\ guesses[MAX_ATTEMPTS].bulls < CODE_LENGTH

\* C3: the history never holds more than MAX_ATTEMPTS guesses, and fewer
\* than MAX_ATTEMPTS while the status is 'playing'.
C3_AttemptsBounded ==
    /\ Len(guesses) <= MAX_ATTEMPTS
    /\ gameStatus = "playing" => Len(guesses) < MAX_ATTEMPTS

\* A game still played before its last attempt.
C3_Witness == gameStatus = "playing" /\ Len(guesses) = MAX_ATTEMPTS - 1

\* C4: the pending input has at most CODE_LENGTH characters, all of them
\* decimal digits, no digit twice.
C4_PendingInputValid ==
    /\ Len(currentInput) <= CODE_LENGTH
    /\ \A i \in 1..Len(currentInput) : currentInput[i] \in DigitKeys
    /\ \A i, j \in 1..Len(currentInput) :
          i # j => currentInput[i] # currentInput[j]

\* An input of three digits after a rejected key press.
C4_Witness ==
    /\ gameStatus = "playing"
    /\ Len(currentInput) = CODE_LENGTH - 1
    /\ shakeInput

\* C5: from the handover on the secret is a code of four distinct digits,
\* in solo and in versus games; every recorded guess is such a code; and
\* no step taken in the setup view records a guess.
C5_ScoredCodesValid ==
    /\ [](gameStatus \in {"handover", "playing", "won", "lost"}
             => IsCode(secretCode))
    /\ [](\A i \in 1..Len(guesses) : IsCode(guesses[i].code))
    /\ [](gameStatus = "setup" => guesses = <<>>)
    /\ [][gameStatus = "setup" => guesses' = guesses]_vars

\* A versus game (no draw of the model generates the secret PoolSeq[2])
\* in which a guess other than the secret was scored.
C5_Witness ==
    /\ gameStatus = "playing"
    /\ secretCode = PoolSeq[2]
    /\ Len(guesses) >= 1
    /\ guesses[1].code # secretCode

\* C6: once the hint is used, a later useHint changes neither
\* hintAvailable nor the revealed flag of any guess.
C6_HintIdempotent ==
    [][(~hintAvailable /\ useHint) =>
          /\ hintAvailable' = hintAvailable
          /\ Len(guesses') = Len(guesses)
          /\ \A i \in 1..Len(guesses) :
                guesses'[i].isRevealed = guesses[i].isRevealed]_vars

\* The hint was used on the first guess and a second guess followed, the
\* game still being played (the hint button is in the view).
C6_Witness ==
    /\ gameStatus = "playing"
    /\ ~hintAvailable
    /\ Len(guesses) = 2
    /\ guesses[1].isRevealed
    /\ ~guesses[2].isRevealed

\* C7: at most one guess is revealed; one is if and only if the hint was
\* used; a step reveals a guess only if it is the last one of a history
\* it leaves as long as it was, and only while the hint is available; a
\* guess is appended unrevealed; useHint on an empty history changes
\* nothing.
C7_OneRevealedGuess ==
    /\ [](Cardinality(RevealedGuesses) <= 1)
    /\ []((RevealedGuesses # {}) <=> ~hintAvailable)
    /\ [][NoReset =>
            /\ \A i \in 1..Len(guesses) :
                  (i <= Len(guesses') /\ ~guesses[i].isRevealed
                       /\ guesses'[i].isRevealed)
                  => /\ i = Len(guesses)
                     /\ Len(guesses') = Len(guesses)
                     /\ hintAvailable
            /\ \A i \in (Len(guesses) + 1)..Len(guesses') :
                  ~guesses'[i].isRevealed]_vars
    /\ [][(useHint /\ guesses = <<>>) =>
            UNCHANGED <<guesses, hintAvailable>>]_vars

\* The second of at least three guesses is the revealed one.
C7_Witness ==
    /\ Len(guesses) >= 3
    /\ RevealedGuesses = {2}
    /\ ~hintAvailable

\* C8: from the handover on (in solo games: from the start of play on),
\* no step other than a reset changes the secret.
C8_SecretImmutable ==
    [][(gameStatus \in {"handover", "playing", "won", "lost"} /\ NoReset)
          => secretCode' = secretCode]_vars

\* A versus game won: the secret typed in the setup view is still there.
C8_Witness ==
    /\ gameStatus = "won"
    /\ secretCode = PoolSeq[2]
    /\ Len(guesses) >= 2

\* C9: a step other than a reset leaves the history, or changes only the
\* revealed flag of its last record, or appends one record to it.
C9_HistoryAppendOnly ==
    [][NoReset =>
          /\ Len(guesses') \in {Len(guesses), Len(guesses) + 1}
          /\ \A i \in 1..Len(guesses) :
                /\ guesses'[i].code = guesses[i].code
                /\ guesses'[i].bulls = guesses[i].bulls
                /\ guesses'[i].cows = guesses[i].cows
                /\ (i < Len(guesses) \/ Len(guesses') > Len(guesses))
                      => guesses'[i] = guesses[i]]_vars

\* A full history of two different codes with a revealed record in it.
C9_Witness ==
    /\ Len(guesses) = MAX_ATTEMPTS
    /\ guesses[1].code # guesses[MAX_ATTEMPTS].code
    /\ RevealedGuesses # {}

\* C10: in 'won' and 'lost' the pending input is empty, and no step other
\* than a reset changes status, secret, history, pending input or hint.
C10_GameOverAbsorbing ==
    /\ [](GameOver => currentInput = <<>>)
    /\ [][(GameOver /\ NoReset) =>
            UNCHANGED <<gameStatus, secretCode, guesses, currentInput,
                        hintAvailable>>]_vars

\* A game lost with the hint never used.
C10_Witness ==
    /\ gameStatus = "lost"
    /\ hintAvailable
    /\ currentInput = <<>>

\* C11: in every state a reset leads to the menu with the secret, the
\* pending input and the history empty and the hint available; so the
\* menu, from which every session starts, holds nothing of an earlier one.
C11_ResetClearsSession ==
    /\ ENABLED (/\ resetGame
                /\ gameStatus' = "menu"
                /\ secretCode' = <<>>
                /\ currentInput' = <<>>
                /\ guesses' = <<>>
                /\ hintAvailable')
    /\ gameStatus = "menu" =>
          /\ secretCode = <<>>
          /\ currentInput = <<>>
          /\ guesses = <<>>
          /\ hintAvailable

\* The menu after a reset that interrupted a session: its shake timer is
\* still running.
C11_Witness == gameStatus = "menu" /\ shakeTimers > 0

\* C12: ENTER with an input of fewer than CODE_LENGTH digits, in the setup
\* view or in the playing view, leaves the shake flag raised and status,
\* secret, pending input, history and hint as they were.
C12_IncompleteSubmitRejected ==
    [][(handleKeypadPress("ENTER") /\ Len(currentInput) # CODE_LENGTH) =>
          /\ shakeInput'
          /\ UNCHANGED <<gameStatus, secretCode, currentInput, guesses,
                         hintAvailable>>]_vars

\* A rejected submit of Player 1: nothing typed yet, the shake raised.
C12_Witness ==
    /\ gameStatus = "setup"
    /\ currentInput = <<>>
    /\ shakeInput
    /\ shakeTimers = 1

\* C13: the score of a valid guess against a valid secret has bulls and
\* cows between 0 and CODE_LENGTH and their sum at most CODE_LENGTH, so
\* the miss count CODE_LENGTH - bulls - cows of a record is never negative.
C13_ScoreInRange ==
    /\ IsCode(secretCode)
    /\ \A i \in 1..Len(guesses) :
          /\ IsCode(guesses[i].code)
          /\ guesses[i].bulls \in 0..CODE_LENGTH
          /\ guesses[i].cows \in 0..CODE_LENGTH
          /\ CODE_LENGTH - guesses[i].bulls - guesses[i].cows >= 0

\* A scored guess with every digit of the secret, none in its place.
C13_Witness ==
    /\ Len(guesses) = 1
    /\ guesses[1].bulls = 0
    /\ guesses[1].cows = CODE_LENGTH

\* C14: a scored guess has CODE_LENGTH bulls if and only if it is the
\* secret, and then it has no cows.
C14_AllBullsIffSecret ==
    \A i \in 1..Len(guesses) :
        /\ (guesses[i].bulls = CODE_LENGTH) <=> (guesses[i].code = secretCode)
        /\ guesses[i].code = secretCode => guesses[i].cows = 0

\* The secret itself was scored: four bulls, no cows, the game won.
C14_Witness ==
    /\ gameStatus = "won"
    /\ Len(guesses) = 1
    /\ guesses[1].code = secretCode
    /\ guesses[1].bulls = CODE_LENGTH
    /\ guesses[1].cows = 0

\* C15: whatever the random indices, in the first game and in every game
\* started after another one, a solo game starts with a secret of
\* CODE_LENGTH distinct decimal digits.
C15_GeneratedSecretValid ==
    /\ [](gameStatus = "playing" => IsCode(secretCode))
    /\ [][(gameStatus = "menu" /\ gameStatus' = "playing")
             => IsCode(secretCode')]_vars

\* Each draw took the last of the digits left: 9, 8, 7, 6.
C15_Witness ==
    /\ gameStatus = "playing"
    /\ secretCode = <<"9", "8", "7", "6">>

\* C20: the score of a guess is the number of positions at which it
\* agrees with the secret and, as cows, the number of digits the two codes
\* share less that number; scoring the secret against the guess gives the
\* same; and 1234 scores (0,4) with 4321, (2,2) with 1243, (0,0) with 5678.
C20_ScoreIsCountingReference ==
    /\ \A i \in 1..Len(guesses) :
          LET guess == guesses[i].code
          IN /\ guesses[i].bulls = RefBulls(secretCode, guess)
             /\ guesses[i].cows =
                   RefCommon(secretCode, guess) - RefBulls(secretCode, guess)
             /\ calculateFeedback(guess, secretCode) =
                   [bulls |-> guesses[i].bulls, cows |-> guesses[i].cows]
    /\ calculateFeedback(<<"1", "2", "3", "4">>, <<"4", "3", "2", "1">>)
          = [bulls |-> 0, cows |-> 4]
    /\ calculateFeedback(<<"1", "2", "3", "4">>, <<"1", "2", "4", "3">>)
          = [bulls |-> 2, cows |-> 2]
    /\ calculateFeedback(<<"1", "2", "3", "4">>, <<"5", "6", "7", "8">>)
          = [bulls |-> 0, cows |-> 0]

\* 5678 scored against the secret 1234: no bull, no cow.
C20_Witness ==
    /\ secretCode = <<"1", "2", "3", "4">>
    /\ Len(guesses) = 1
    /\ guesses[1].code = <<"5", "6", "7", "8">>
    /\ guesses[1].bulls = 0
    /\ guesses[1].cows = 0

\* C16 as claimed: wherever the keypad is, a digit that is not in an
\* input of fewer than CODE_LENGTH digits is appended to it when pressed,
\* a shake being in progress or not.
C16_AppendsInEveryState ==
    \A d \in DigitKeys :
        (KeypadRendered /\ Len(currentInput) < CODE_LENGTH
            /\ ~Includes(currentInput, d))
        => ENABLED (/\ handleKeypadPress(d)
                    /\ currentInput' = currentInput \o <<d>>)

\* C16, amended: such a digit is appended when no shake is in progress;
\* while one is, the press changes nothing.
C16_AppendsUnlessShaking ==
    \A d \in DigitKeys :
        (KeypadRendered /\ Len(currentInput) < CODE_LENGTH
            /\ ~Includes(currentInput, d))
        => IF shakeInput
           THEN ENABLED (handleKeypadPress(d) /\ UNCHANGED vars)
           ELSE ENABLED (/\ handleKeypadPress(d)
                         /\ currentInput' = currentInput \o <<d>>
                         /\ UNCHANGED <<gameStatus, secretCode, guesses,
                                        shakeInput, hintAvailable,
                                        shakeTimers>>)

\* Player 1 has typed two digits and a shake is in progress.
C16_Witness ==
    /\ gameStatus = "setup"
    /\ Len(currentInput) = 2
    /\ shakeInput

\* C17 as claimed: wherever the keypad is, pressing a digit that is in the
\* input, whatever its length, leaves the shake flag raised and the input
\* as it was.
C17_DuplicateShakesAtEveryLength ==
    \A d \in DigitKeys :
        (KeypadRendered /\ Includes(currentInput, d))
        => ENABLED (/\ handleKeypadPress(d)
                    /\ shakeInput'
                    /\ currentInput' = currentInput)

\* C17, amended: so it is for an input of fewer than CODE_LENGTH digits
\* (with a timer started unless a shake is in progress already); on a
\* full input the press changes nothing and raises no shake.
C17_DuplicateShakesBelowFullLength ==
    \A d \in DigitKeys :
        (KeypadRendered /\ Includes(currentInput, d))
        => IF Len(currentInput) >= CODE_LENGTH \/ shakeInput
           THEN ENABLED (handleKeypadPress(d) /\ UNCHANGED vars)
           ELSE ENABLED (/\ handleKeypadPress(d)
                         /\ shakeInput'
                         /\ shakeTimers' = shakeTimers + 1
                         /\ UNCHANGED <<gameStatus, secretCode, currentInput,
                                        guesses, hintAvailable>>)

\* The guesser's one digit, pressed again or submitted: a shake.
C17_Witness ==
    /\ gameStatus = "playing"
    /\ Len(currentInput) = 1
    /\ shakeInput
    /\ Len(guesses) >= 1

\* C18 as claimed: wherever the keypad is, DEL removes the last character
\* of the input (none of an empty one) and changes nothing else, a shake
\* being in progress or not.
C18_DeleteInEveryState ==
    KeypadRendered
    => ENABLED (/\ handleKeypadPress("DEL")
                /\ currentInput' = SliceDropLast(currentInput)
                /\ UNCHANGED <<gameStatus, secretCode, guesses, shakeInput,
                               hintAvailable, shakeTimers>>)

\* C18, amended: so it is when no shake is in progress; while one is, DEL
\* changes nothing.
C18_DeleteUnlessShaking ==
    KeypadRendered
    => IF shakeInput
       THEN ENABLED (handleKeypadPress("DEL") /\ UNCHANGED vars)
       ELSE ENABLED (/\ handleKeypadPress("DEL")
                     /\ currentInput' = SliceDropLast(currentInput)
                     /\ UNCHANGED <<gameStatus, secretCode, guesses,
                                    shakeInput, hintAvailable, shakeTimers>>)

\* Player 1 has typed three digits and a shake is in progress.
C18_Witness ==
    /\ gameStatus = "setup"
    /\ Len(currentInput) = 3
    /\ shakeInput

\* C19: ENTER on a full input in the setup view (no shake in progress)
\* makes that input the secret, clears the input and shows the handover;
\* the setup view is left in no other way but a reset; and the handover
\* is left, but for a reset, only for the playing view, with secret,
\* empty input, empty history and unused hint as they were.
C19_VersusSecretIsSetupInput ==
    /\ []((gameStatus = "setup" /\ Len(currentInput) = CODE_LENGTH
              /\ ~shakeInput)
            => ENABLED (/\ handleKeypadPress("ENTER")
                        /\ gameStatus' = "handover"
                        /\ secretCode' = currentInput
                        /\ currentInput' = <<>>))
    /\ [](gameStatus = "handover" =>
            /\ currentInput = <<>>
            /\ guesses = <<>>
            /\ hintAvailable)
    /\ [][(gameStatus = "setup" /\ gameStatus' # "setup" /\ NoReset) =>
            /\ Len(currentInput) = CODE_LENGTH
            /\ gameStatus' = "handover"
            /\ secretCode' = currentInput
            /\ currentInput' = <<>>
            /\ UNCHANGED <<guesses, hintAvailable>>]_vars
    /\ [][(gameStatus = "handover" /\ NoReset) =>
            /\ gameStatus' \in {"handover", "playing"}
            /\ UNCHANGED <<secretCode, currentInput, guesses,
                           hintAvailable>>]_vars

\* Player 2 is about to guess the secret 5678, which only Player 1 can
\* have typed (no draw of the model generates it).
C19_Witness ==
    /\ gameStatus = "playing"
    /\ secretCode = PoolSeq[3]
    /\ currentInput = <<>>
    /\ guesses = <<>>
    /\ hintAvailable

\* C21: for every guess of the history, the colours computed against the
\* secret as it is now mark as many digits bull as the record's bulls and
\* as many cow as its cows (the rest miss), and a revealed guess is displayed
\* with as many bull and cow digits as its record says.
C21_DisplayAgreesWithRecord ==
    \A i \in 1..Len(guesses) :
        LET g == guesses[i]
        IN /\ ClassCount(g.code, "bull") = g.bulls
           /\ ClassCount(g.code, "cow") = g.cows
           /\ ClassCount(g.code, "miss") = CODE_LENGTH - g.bulls - g.cows
           /\ g.isRevealed =>
                 /\ Cardinality({dIdx \in 0..(CODE_LENGTH - 1) :
                                    colorClass(g, dIdx) = "bull"}) = g.bulls
                 /\ Cardinality({dIdx \in 0..(CODE_LENGTH - 1) :
                                    colorClass(g, dIdx) = "cow"}) = g.cows

\* A revealed guess that shows a bull, a cow and a miss.
C21_Witness ==
    \E i \in 1..Len(guesses) :
        /\ guesses[i].isRevealed
        /\ \A class \in {"bull", "cow", "miss"} :
              \E dIdx \in 0..(CODE_LENGTH - 1) :
                 colorClass(guesses[i], dIdx) = class

\* C22: the shake is transient.  At most one shake timer is pending, and
\* one is pending exactly while shakeInput is raised; every step that runs
\* a timer's callback or lowers shakeInput leaves gameStatus, secretCode,
\* currentInput, guesses and hintAvailable as they were; and a raised
\* shakeInput is eventually lowered, whatever resetGame or startGame did
\* in between.
C22_ShakeTransient ==
    /\ [](shakeTimers <= 1 /\ (shakeInput <=> shakeTimers = 1))
    /\ [][(shakeTimers' < shakeTimers \/ (shakeInput /\ ~shakeInput'))
             => /\ shakeInput /\ ~shakeInput'
                /\ shakeTimers' = shakeTimers - 1
                /\ UNCHANGED <<gameStatus, secretCode, currentInput, guesses,
                               hintAvailable>>]_vars
    /\ (shakeInput ~> ~shakeInput)

\* A shake is still pending after resetGame: the session it was raised in
\* is gone, its timer has not fired yet.
C22_Witness ==
    /\ gameStatus = "menu"
    /\ secretCode = <<>>
    /\ guesses = <<>>
    /\ shakeInput
    /\ shakeTimers = 1

====
